---------------------------- MODULE Spec2Model ----------------------------
(***************************************************************************)
(* A model of src/main.rs: the mouse-button debounce filter.               *)
(*                                                                         *)
(* main() runs a supervisor loop that starts sessions                      *)
(* (connect_and_run_loop); a session opens and grabs the physical mouse,   *)
(* builds a virtual device, initialises the per-button debounce table and  *)
(* then reads batches of events, passing each one through handle_event.    *)
(* The Ctrl-C handler clears the shared `running` flag at any moment.      *)
(*                                                                         *)
(* Times are in milliseconds.  `now` is the latest reading of the          *)
(* monotonic clock (Instant::now()).                                       *)
(***************************************************************************)
EXTENDS Integers, Sequences, FiniteSets

VARIABLES
    pc,             \* position of the main thread
    running,        \* the AtomicBool shared with the Ctrl-C handler
    session,        \* number of calls of connect_and_run_loop so far
    result,         \* what the last connect_and_run_loop call returned ("none"
                    \* once the next one has opened the device)
    exit_code,      \* exit status of the process, NoExit while it runs
    opened,         \* physical_device is open (the handle is alive)
    grabbed,        \* the handle holds the exclusive grab
    virtual,        \* virtual_device exists
    ungrabbed,      \* this session reached its explicit ungrab() (line 169)
    ended_by,       \* the path on which the last session returned ("none" once
                    \* the next one has opened the device)
    held,           \* buttons whose is_pressed was true when the last table was dropped
    button_states,  \* HashMap<KeyCode, ButtonState> of the running session
    now,            \* latest clock reading
    batch,          \* events of the fetched batch not yet handled
    fetched,        \* number of events fetch_events returned since the start
    received,       \* the events fetch_events returned in this session, in order
    observed,       \* one entry per event handle_event was called with, this session
    emitted         \* the events this session's virtual device accepted, in order

vars == << pc, running, session, result, exit_code, opened, grabbed, virtual,
           ungrabbed, ended_by, held, button_states, now, batch, fetched,
           received, observed, emitted >>

----------------------------------------------------------------------------
(* Bounds of the exploration *)

\* events the physical device delivers over the life of the process
MaxEvents == 3
\* calls of connect_and_run_loop
MaxSessions == 2
\* events in one fetched batch
MaxBatch == 2
\* clock advance between two readings that are not at a window's edge
Step == 10

----------------------------------------------------------------------------
(* Constants of the program *)

DEFAULT_DEBOUNCE_DURATION == 50
RECONNECT_DELAY == 3000
\* Duration::from_secs(3600) subtracted from Instant::now() at initialisation
INITIAL_AGE == 3600000
\* thread::sleep(Duration::from_secs(1)) after the virtual device is built
SETTLE_DELAY == 1000
SIDE_DEBOUNCE_DURATION == 350
EXTRA_DEBOUNCE_DURATION == 300

debounced_buttons ==
    {"BTN_LEFT", "BTN_RIGHT", "BTN_MIDDLE", "BTN_SIDE", "BTN_EXTRA"}

custom_debounce_durations ==
    [k \in {"BTN_SIDE", "BTN_EXTRA"} |->
        IF k = "BTN_SIDE" THEN SIDE_DEBOUNCE_DURATION
                          ELSE EXTRA_DEBOUNCE_DURATION]

NoExit == -1
NoStates == [k \in {} |-> 0]

----------------------------------------------------------------------------
(* Events: evdev's InputEvent is (type, code, value) *)

KeyEvent(code, value) == [type |-> "KEY", code |-> code, value |-> value]

\* 0 release, 1 press, 2 autorepeat
KeyValues == {0, 1, 2}

\* The buttons of the table whose events are explored: one for each of the
\* three windows (BTN_RIGHT and BTN_MIDDLE share BTN_LEFT's window and code
\* path).
DeviceButtons == {"BTN_LEFT", "BTN_SIDE", "BTN_EXTRA"}

\* BTN_TASK is a key code that is not in the debounce table
InputEvents ==
    { KeyEvent(c, v) : c \in DeviceButtons, v \in KeyValues }
    \union { KeyEvent("BTN_TASK", 1),
             [type |-> "RELATIVE", code |-> "REL_X", value |-> 5],
             [type |-> "SYNCHRONIZATION", code |-> "SYN_REPORT", value |-> 0] }

\* the batches of n events fetch_events may return
Batches(n) == [1..n -> InputEvents]

ReadErrorKinds == {"NotFound", "BrokenPipe", "Other"}

----------------------------------------------------------------------------
(* initialize_button_states *)

debounce_duration_of(key_code) ==
    IF key_code \in DOMAIN custom_debounce_durations
    THEN custom_debounce_durations[key_code]
    ELSE DEFAULT_DEBOUNCE_DURATION

\* a variant that starts every window at the time of initialisation
MutInitializeButtonStates(t) ==
    [key_code \in debounced_buttons |->
        [is_pressed |-> FALSE,
         last_press_time |-> t,
         debounce_duration |-> debounce_duration_of(key_code)]]

initialize_button_states(t) ==
    [key_code \in debounced_buttons |->
        [is_pressed |-> FALSE,
         last_press_time |-> t - INITIAL_AGE,
         debounce_duration |-> debounce_duration_of(key_code)]]

----------------------------------------------------------------------------
(* handle_event *)

\* `if let Some(state) = button_states.get_mut(&key_code)` under type == KEY
IsTracked(event, states) ==
    event.type = "KEY" /\ event.code \in DOMAIN states

\* a variant that also accepts a press read exactly one window after the last
MutPressAccepted(state, t) ==
    t - state.last_press_time >= state.debounce_duration

\* line 228: now.duration_since(state.last_press_time) > state.debounce_duration
\* (duration_since saturates at zero)
PressAccepted(state, t) ==
    LET since == IF t >= state.last_press_time
                 THEN t - state.last_press_time ELSE 0
    IN  since > state.debounce_duration

\* a variant that forwards every release
MutReleaseAccepted(state) == TRUE

\* line 238: if state.is_pressed
ReleaseAccepted(state) == state.is_pressed

\* a variant that gates the repeats of a tracked button like its releases
MutCallsEmit(event, t, states) ==
    IF IsTracked(event, states)
    THEN CASE event.value = 1 -> PressAccepted(states[event.code], t)
           [] OTHER -> ReleaseAccepted(states[event.code])
    ELSE TRUE

\* whether handle_event calls virtual_device.emit for the event
CallsEmit(event, t, states) ==
    IF IsTracked(event, states)
    THEN CASE event.value = 1 -> PressAccepted(states[event.code], t)
           [] event.value = 0 -> ReleaseAccepted(states[event.code])
           [] OTHER -> TRUE
    ELSE TRUE

\* a variant that records the time of the press but not is_pressed
MutPressedState(state, t) == [state EXCEPT !.last_press_time = t]

\* a variant that sets is_pressed but not the time of the press
MutPressedStateNoTime(state, t) == [state EXCEPT !.is_pressed = TRUE]

\* the ButtonState of the event's key after the match arm ran
PressedState(state, t) ==
    [state EXCEPT !.last_press_time = t, !.is_pressed = TRUE]

ReleasedState(state) == [state EXCEPT !.is_pressed = FALSE]

\* a variant that restarts the window at every press, forwarded or not
MutStatesAfter(event, t, states) ==
    IF IsTracked(event, states) /\ event.value = 1
    THEN IF PressAccepted(states[event.code], t)
         THEN [states EXCEPT ![event.code] = PressedState(@, t)]
         ELSE [states EXCEPT ![event.code].last_press_time = t]
    ELSE IF IsTracked(event, states) /\ event.value = 0
              /\ ReleaseAccepted(states[event.code])
         THEN [states EXCEPT ![event.code] = ReleasedState(@)]
         ELSE states

\* the table after handle_event (the writes precede the emit call)
StatesAfter(event, t, states) ==
    IF IsTracked(event, states)
    THEN CASE event.value = 1 /\ PressAccepted(states[event.code], t) ->
                [states EXCEPT ![event.code] = PressedState(@, t)]
           [] event.value = 0 /\ ReleaseAccepted(states[event.code]) ->
                [states EXCEPT ![event.code] = ReleasedState(@)]
           [] OTHER -> states
    ELSE states

\* The clock readings explored for `let now = Instant::now()` (line 225):
\* a small step, and for a press both sides of the edge of the button's
\* window.  A reading is never earlier than the previous one.
Readings(event, states) ==
    IF IsTracked(event, states)
    THEN {now + Step} \union
         (IF event.value = 1
          THEN LET s == states[event.code]
                   edge == s.last_press_time + s.debounce_duration
               IN  {t \in {edge, edge + 1} : t >= now}
          ELSE {})
    ELSE {now}

----------------------------------------------------------------------------
Init ==
    /\ pc = "privilege"
    /\ running = TRUE
    /\ session = 0
    /\ result = "none"
    /\ exit_code = NoExit
    /\ opened = FALSE
    /\ grabbed = FALSE
    /\ virtual = FALSE
    /\ ungrabbed = FALSE
    /\ ended_by = "none"
    /\ held = {}
    /\ button_states = NoStates
    /\ now = 0
    /\ batch = << >>
    /\ fetched = 0
    /\ received = << >>
    /\ observed = << >>
    /\ emitted = << >>

histories == << received, observed, emitted >>
devices == << opened, grabbed, virtual >>

\* a variant of the handler that flips the flag at every request
MutCtrlC ==
    /\ pc # "exited"
    /\ running' = ~running
    /\ UNCHANGED << pc, session, result, exit_code, devices, ungrabbed,
                    ended_by, held, button_states, now, batch, fetched,
                    histories >>

\* lines 40-45: the Ctrl-C handler, on another thread, at any moment
CtrlC ==
    /\ pc # "exited"
    /\ running' = FALSE
    /\ UNCHANGED << pc, session, result, exit_code, devices, ungrabbed,
                    ended_by, held, button_states, now, batch, fetched,
                    histories >>

\* lines 50-53: the root check
PrivilegeCheck ==
    /\ pc = "privilege"
    /\ \E is_root \in BOOLEAN :
          IF is_root
          THEN pc' = "loop" /\ exit_code' = exit_code
          ELSE pc' = "exited" /\ exit_code' = 1
    /\ UNCHANGED << running, session, result, devices, ungrabbed, ended_by,
                    held, button_states, now, batch, fetched, histories >>

\* a variant of main's loop that does not test the flag
MutSupervisorLoop ==
    /\ pc = "loop"
    /\ session < MaxSessions
    /\ pc' = "open"
    /\ session' = session + 1
    /\ ungrabbed' = FALSE
    /\ UNCHANGED << running, result, exit_code, ended_by, devices, held,
                    button_states, now, batch, fetched, histories >>

\* line 58: `while running.load()`; when it is false main returns (78-79)
SupervisorLoop ==
    /\ pc = "loop"
    /\ IF running
       THEN /\ session < MaxSessions
            /\ pc' = "open"
            /\ session' = session + 1
            /\ ungrabbed' = FALSE
            /\ exit_code' = exit_code
       ELSE /\ pc' = "exited"
            /\ exit_code' = 0
            /\ UNCHANGED << session, ungrabbed >>
    /\ UNCHANGED << running, result, ended_by, devices, held, button_states,
                    now, batch, fetched, histories >>

\* What every return from connect_and_run_loop does: the locals are dropped
\* (both devices closed, the table `states` and the streams gone).
Return(res, path, states) ==
    /\ pc' = "returned"
    /\ result' = res
    /\ ended_by' = path
    /\ opened' = FALSE /\ grabbed' = FALSE /\ virtual' = FALSE
    /\ held' = {k \in DOMAIN states : states[k].is_pressed}
    /\ button_states' = NoStates
    /\ batch' = << >>
    /\ received' = << >> /\ observed' = << >> /\ emitted' = << >>

\* a variant of the cleanup that returns without the explicit ungrab
MutCleanup(path) ==
    /\ ungrabbed' = ungrabbed
    /\ Return("Ok", path, button_states)

\* lines 168-175: the explicit ungrab (its error is only logged), then Ok(())
Cleanup(path) ==
    /\ ungrabbed' = TRUE
    /\ Return("Ok", path, button_states)

\* a variant that propagates every read error with `?`
MutReadErrorPropagated(kind) == "Err"

\* a variant that returns the error unless the device is gone
MutReadErrorFatalOther(kind) ==
    IF kind \in {"NotFound", "BrokenPipe"} THEN "Ok" ELSE "Err"

\* lines 150-160: both arms of the `if` on e.kind() only log, and `break`
\* leads to the cleanup and to Ok(()) at line 175
ReadErrorResult(kind) == "Ok"

\* lines 89-104: Device::open; a failure returns Ok(())
OpenDevice ==
    /\ pc = "open"
    /\ \E ok \in BOOLEAN :
          IF ok
          THEN /\ pc' = "grab"
               /\ opened' = TRUE
               /\ result' = "none"
               /\ ended_by' = "none"
               /\ UNCHANGED << grabbed, virtual, held, button_states, batch,
                               histories >>
          ELSE Return("Ok", "open_failed", button_states)
    /\ UNCHANGED << running, session, exit_code, ungrabbed, now, fetched >>

\* a variant that goes on to build the virtual device whether or not the
\* grab succeeded
MutGrab ==
    /\ pc = "grab"
    /\ \E ok \in BOOLEAN :
          /\ pc' = "build"
          /\ grabbed' = ok
          /\ UNCHANGED << result, ended_by, opened, virtual, held,
                          button_states, batch, histories >>
    /\ UNCHANGED << running, session, exit_code, ungrabbed, now, fetched >>

\* line 108: physical_device.grab()?
Grab ==
    /\ pc = "grab"
    /\ \E ok \in BOOLEAN :
          IF ok
          THEN /\ pc' = "build"
               /\ grabbed' = TRUE
               /\ UNCHANGED << result, ended_by, opened, virtual, held,
                               button_states, batch, histories >>
          ELSE Return("Err", "grab_failed", button_states)
    /\ UNCHANGED << running, session, exit_code, ungrabbed, now, fetched >>

\* lines 124-129: VirtualDevice::builder()...build()?
BuildVirtualDevice ==
    /\ pc = "build"
    /\ \E ok \in BOOLEAN :
          IF ok
          THEN /\ pc' = "init"
               /\ virtual' = TRUE
               /\ UNCHANGED << result, ended_by, opened, grabbed, held,
                               button_states, batch, histories >>
          ELSE Return("Err", "build_failed", button_states)
    /\ UNCHANGED << running, session, exit_code, ungrabbed, now, fetched >>

\* a variant whose table outlives the session: a button that was pressed
\* when the last session ended starts the next one pressed
MutInitializeSession ==
    /\ pc = "init"
    /\ now' = now + SETTLE_DELAY
    /\ button_states' =
          [k \in debounced_buttons |->
              [initialize_button_states(now')[k] EXCEPT !.is_pressed = (k \in held)]]
    /\ pc' = "active"
    /\ UNCHANGED << running, session, result, exit_code, devices, ungrabbed,
                    ended_by, held, batch, fetched, histories >>

\* lines 131-134: sleep one second, then initialize_button_states()
InitializeSession ==
    /\ pc = "init"
    /\ now' = now + SETTLE_DELAY
    /\ button_states' = initialize_button_states(now')
    /\ pc' = "active"
    /\ UNCHANGED << running, session, result, exit_code, devices, ungrabbed,
                    ended_by, held, batch, fetched, histories >>

\* a variant of the session's loop that does not test the flag
MutSessionLoop ==
    /\ pc = "active"
    /\ pc' = "fetch"
    /\ UNCHANGED << running, session, result, exit_code, devices, ungrabbed,
                    ended_by, held, button_states, now, batch, fetched,
                    histories >>

\* line 142: `while running.load()` of the session; when it is false the
\* session goes on to its cleanup (164-175)
SessionLoop ==
    /\ pc = "active"
    /\ IF running
       THEN /\ pc' = "fetch"
            /\ UNCHANGED << result, ended_by, devices, ungrabbed, held,
                            button_states, batch, histories >>
       ELSE Cleanup("stopped")
    /\ UNCHANGED << running, session, exit_code, now, fetched >>

\* lines 144-145: the blocking fetch_events() returns a batch
FetchEvents ==
    /\ pc = "fetch"
    /\ \E n \in 1..MaxBatch :
          /\ fetched + n <= MaxEvents
          /\ \E events \in Batches(n) :
                /\ batch' = events
                /\ received' = received \o events
                /\ fetched' = fetched + n
    /\ pc' = "handle"
    /\ UNCHANGED << running, session, result, exit_code, devices, ungrabbed,
                    ended_by, held, button_states, now, observed, emitted >>

\* lines 150-160 and 164-175: fetch_events() fails; whatever the kind of the
\* error the loop is left with `break` and the session goes on to its cleanup
FetchError ==
    /\ pc = "fetch"
    /\ \E kind \in ReadErrorKinds :
          IF ReadErrorResult(kind) = "Ok"
          THEN Cleanup(kind)
          ELSE /\ Return("Err", kind, button_states)
               /\ ungrabbed' = ungrabbed
    /\ UNCHANGED << running, session, exit_code, now, fetched >>

\* index in `received` of the event at the head of the batch
HeadIndex == Len(received) - Len(batch) + 1

\* a variant of handle_event without the `return Ok(())` of line 250: an
\* event of a tracked button goes on to the emit of line 265
MutHandleEvent ==
    /\ pc = "handle"
    /\ batch # << >>
    /\ LET event == Head(batch)
           entry(t) == [event |-> event, at |-> t, idx |-> HeadIndex] IN
       \E t \in Readings(event, button_states) :
          /\ now' = t
          /\ \E emit_ok \in BOOLEAN :
               IF emit_ok
               THEN /\ button_states' = StatesAfter(event, t, button_states)
                    /\ observed' = Append(observed,
                          [idx |-> HeadIndex, at |-> t,
                           pressed |-> IF IsTracked(event, button_states)
                                       THEN button_states'[event.code].is_pressed
                                       ELSE FALSE])
                    /\ emitted' =
                          IF IsTracked(event, button_states)
                          THEN (IF CallsEmit(event, t, button_states)
                                THEN emitted \o << entry(t), entry(t) >>
                                ELSE Append(emitted, entry(t)))
                          ELSE Append(emitted, entry(t))
                    /\ batch' = Tail(batch)
                    /\ pc' = IF Tail(batch) = << >> THEN "active" ELSE "handle"
                    /\ UNCHANGED << result, ended_by, devices, held, received >>
               ELSE Return("Err", "emit_failed",
                           StatesAfter(event, t, button_states))
    /\ UNCHANGED << running, session, exit_code, ungrabbed, fetched >>

\* lines 146-148 with 217-267: handle_event on the next event of the batch.
\* emit() may fail; `?` then returns the error from connect_and_run_loop
\* at once, without reaching the cleanup step.
HandleEvent ==
    /\ pc = "handle"
    /\ batch # << >>
    /\ LET event == Head(batch) IN
       \E t \in Readings(event, button_states) :
          /\ now' = t
          /\ \E emit_ok \in IF CallsEmit(event, t, button_states)
                            THEN BOOLEAN ELSE {TRUE} :
               IF emit_ok
               THEN /\ button_states' = StatesAfter(event, t, button_states)
                    /\ observed' = Append(observed,
                          [idx |-> HeadIndex, at |-> t,
                           pressed |-> IF IsTracked(event, button_states)
                                       THEN button_states'[event.code].is_pressed
                                       ELSE FALSE])
                    /\ emitted' = IF CallsEmit(event, t, button_states)
                                  THEN Append(emitted,
                                         [event |-> event, at |-> t,
                                          idx |-> HeadIndex])
                                  ELSE emitted
                    /\ batch' = Tail(batch)
                    /\ pc' = IF Tail(batch) = << >> THEN "active" ELSE "handle"
                    /\ UNCHANGED << result, ended_by, devices, held, received >>
               ELSE Return("Err", "emit_failed",
                           StatesAfter(event, t, button_states))
    /\ UNCHANGED << running, session, exit_code, ungrabbed, fetched >>

\* a variant of main's check that treats an error like a disconnection
MutSupervisorCheckRetries ==
    /\ pc = "returned"
    /\ pc' = IF running THEN "sleep" ELSE "loop"
    /\ exit_code' = exit_code
    /\ UNCHANGED << running, session, result, devices, ungrabbed, ended_by,
                    held, button_states, now, batch, fetched, histories >>

\* a variant of main's check that sleeps after every Ok, whatever the flag
MutSupervisorCheckSleeps ==
    /\ pc = "returned"
    /\ IF result = "Err"
       THEN pc' = "exited" /\ exit_code' = 0
       ELSE pc' = "sleep" /\ exit_code' = exit_code
    /\ UNCHANGED << running, session, result, devices, ungrabbed, ended_by,
                    held, button_states, now, batch, fetched, histories >>

\* lines 62-69: main looks at the session's result, then at `running`;
\* `break` leads to the end of main (78-79)
SupervisorCheck ==
    /\ pc = "returned"
    /\ IF result = "Err"
       THEN pc' = "exited" /\ exit_code' = 0
       ELSE /\ pc' = IF running THEN "sleep" ELSE "loop"
            /\ exit_code' = exit_code
    /\ UNCHANGED << running, session, result, devices, ungrabbed, ended_by,
                    held, button_states, now, batch, fetched, histories >>

\* line 74: thread::sleep(RECONNECT_DELAY)
ReconnectDelay ==
    /\ pc = "sleep"
    /\ now' = now + RECONNECT_DELAY
    /\ pc' = "loop"
    /\ UNCHANGED << running, session, result, exit_code, devices, ungrabbed,
                    ended_by, held, button_states, batch, fetched, histories >>

Next ==
    \/ CtrlC
    \/ PrivilegeCheck
    \/ SupervisorLoop
    \/ OpenDevice
    \/ Grab
    \/ BuildVirtualDevice
    \/ InitializeSession
    \/ SessionLoop
    \/ FetchEvents
    \/ FetchError
    \/ HandleEvent
    \/ SupervisorCheck
    \/ ReconnectDelay

Spec == Init /\ [][Next]_vars

\* The events explored under fairness: a press and a release of one tracked
\* button and one event that is passed through.  Which steps the main
\* thread can take next depends on an event only through whether emit is
\* called for it.
FairEvents ==
    { KeyEvent("BTN_LEFT", 1), KeyEvent("BTN_LEFT", 0),
      [type |-> "RELATIVE", code |-> "REL_X", value |-> 5] }

\* fetch_events() returns a batch of such events
FairFetchEvents ==
    /\ FetchEvents
    /\ \A i \in 1..Len(batch') : batch'[i] \in FairEvents

\* The steps of the main thread other than the return of fetch_events, and
\* the return of fetch_events (with a batch or with an error).
MainStep ==
    \/ PrivilegeCheck \/ SupervisorLoop \/ OpenDevice \/ Grab
    \/ BuildVirtualDevice \/ InitializeSession \/ SessionLoop \/ HandleEvent
    \/ SupervisorCheck \/ ReconnectDelay

ReadReturns == FairFetchEvents \/ FetchError

FairNext ==
    \/ CtrlC
    \/ PrivilegeCheck
    \/ SupervisorLoop
    \/ OpenDevice
    \/ Grab
    \/ BuildVirtualDevice
    \/ InitializeSession
    \/ SessionLoop
    \/ FairFetchEvents
    \/ FetchError
    \/ HandleEvent
    \/ SupervisorCheck
    \/ ReconnectDelay

\* The main thread keeps running (its calls other than the read return),
\* and every blocking read of the device returns.
FairSpec ==
    Init /\ [][FairNext]_vars /\ WF_vars(MainStep) /\ WF_vars(ReadReturns)

----------------------------------------------------------------------------
(* Vocabulary of the properties *)

\* the step is a call of handle_event on `event`
Handles(event) ==
    pc = "handle" /\ batch # << >> /\ Head(batch) = event /\ batch' # batch

\* the step hands `event` to the virtual device, which accepts it
Emits(event) ==
    emitted' = Append(emitted, [event |-> event, at |-> now', idx |-> HeadIndex])

\* the step called emit(), which failed: the error leaves the session
EmitFails ==
    pc' = "returned" /\ result' = "Err" /\ ended_by' = "emit_failed"

\* the step emits nothing and the session goes on
EmitsNothing == emitted' = emitted /\ pc' \in {"handle", "active"}

\* entry i of `received` was accepted by the virtual device
IsEmitted(i) == \E j \in 1..Len(emitted) : emitted[j].idx = i

\* the entries of `observed` that are presses, releases of button k
IsPressOf(o, k) == received[o.idx] = KeyEvent(k, 1)
IsReleaseOf(o, k) == received[o.idx] = KeyEvent(k, 0)

Observed == { observed[i] : i \in 1..Len(observed) }
Emitted == { emitted[i] : i \in 1..Len(emitted) }

\* the windows the documentation states, in milliseconds
WindowOf(k) ==
    CASE k = "BTN_SIDE" -> 350
      [] k = "BTN_EXTRA" -> 300
      [] OTHER -> 50

----------------------------------------------------------------------------
(* C1: a press of a tracked button read at time `now` is handed to the     *)
(* virtual device if and only if now - last_press_time is strictly greater *)
(* than the button's window; then last_press_time becomes now and          *)
(* is_pressed true.  Otherwise (equality included) nothing is emitted and  *)
(* the table is unchanged.                                                 *)
C1_PressStep(k) ==
    LET before == button_states[k] IN
    IF now' - before.last_press_time > before.debounce_duration
    THEN \/ /\ Emits(KeyEvent(k, 1))
            /\ button_states' =
                  [button_states EXCEPT ![k] =
                      [is_pressed |-> TRUE,
                       last_press_time |-> now',
                       debounce_duration |-> before.debounce_duration]]
         \/ EmitFails
    ELSE EmitsNothing /\ button_states' = button_states

\* C1: every handle_event step on a press of a tracked button decides by
\* the strict comparison with the window
C1_PressDecision ==
    [][\A k \in debounced_buttons :
          Handles(KeyEvent(k, 1)) => C1_PressStep(k)]_vars

\* a press was forwarded and a later press of the same button, read exactly
\* one window later, was suppressed
C1_Witness ==
    \E k \in debounced_buttons : \E e \in Emitted : \E o \in Observed :
        /\ e.event = KeyEvent(k, 1)
        /\ IsPressOf(o, k)
        /\ o.idx > e.idx
        /\ o.at - e.at = WindowOf(k)
        /\ ~IsEmitted(o.idx)
        /\ button_states[k].last_press_time = e.at

----------------------------------------------------------------------------
(* C2: a release of a tracked button is handed to the virtual device if    *)
(* and only if is_pressed is true, which is the case exactly when the last *)
(* forwarded press-or-release of the button in the session was a press; a  *)
(* forwarded release clears is_pressed, a suppressed one emits nothing and *)
(* leaves the table unchanged.                                             *)

\* the forwarded presses and releases of button k, and the last of them
Transitions(k) ==
    { e \in Emitted : e.event \in {KeyEvent(k, 0), KeyEvent(k, 1)} }

LastForwardedIsPress(k) ==
    \E e \in Transitions(k) :
        /\ e.event.value = 1
        /\ \A f \in Transitions(k) : f.idx <= e.idx

C2_ReleaseStep(k) ==
    /\ button_states[k].is_pressed = LastForwardedIsPress(k)
    /\ IF LastForwardedIsPress(k)
       THEN \/ /\ Emits(KeyEvent(k, 0))
               /\ button_states' =
                     [button_states EXCEPT ![k] =
                         [is_pressed |-> FALSE,
                          last_press_time |-> button_states[k].last_press_time,
                          debounce_duration |-> button_states[k].debounce_duration]]
            \/ EmitFails
       ELSE EmitsNothing /\ button_states' = button_states

\* C2: every handle_event step on a release of a tracked button decides by
\* is_pressed, which mirrors the last forwarded press-or-release
C2_ReleaseDecision ==
    [][\A k \in debounced_buttons :
          Handles(KeyEvent(k, 0)) => C2_ReleaseStep(k)]_vars

\* a release was forwarded and a later release of the same button, with no
\* press forwarded in between, was suppressed
C2_Witness ==
    \E k \in debounced_buttons : \E e \in Emitted : \E o \in Observed :
        /\ e.event = KeyEvent(k, 0)
        /\ IsReleaseOf(o, k)
        /\ o.idx > e.idx
        /\ ~IsEmitted(o.idx)
        /\ \A f \in Transitions(k) : f.idx <= e.idx
        /\ ~button_states[k].is_pressed

----------------------------------------------------------------------------
(* C3 as stated: when a press of a tracked button is suppressed and the    *)
(* next press-or-release of that button is a release, that release is not  *)
(* emitted.                                                                *)

\* the presses and releases of button k handle_event has seen this session
Seen(k) == { o \in Observed : IsPressOf(o, k) \/ IsReleaseOf(o, k) }

\* the latest press-or-release of button k was a press, and was suppressed
LastWasSuppressedPress(k) ==
    \E o \in Seen(k) :
        /\ IsPressOf(o, k)
        /\ ~IsEmitted(o.idx)
        /\ \A q \in Seen(k) : q.idx <= o.idx

----------------------------------------------------------------------------
(* C4 as stated: of two presses of a tracked button read at t0 and t1 with *)
(* t1 - t0 no more than the window, the second is suppressed and           *)
(* is_pressed after it is what it was after the first.                     *)
C4_AnyTwoPresses ==
    \A k \in debounced_buttons : \A p \in Observed : \A q \in Observed :
        (/\ IsPressOf(p, k) /\ IsPressOf(q, k)
         /\ p.idx < q.idx
         /\ q.at - p.at <= WindowOf(k))
        => (~IsEmitted(q.idx) /\ q.pressed = p.pressed)

\* The first half of C4 as stated, on its own: it fails too, when the press
\* at t0 was itself suppressed (press forwarded at 0, suppressed at 10,
\* forwarded at 51 with a 50 ms window).
C4_SecondPressSuppressed ==
    \A k \in debounced_buttons : \A p \in Observed : \A q \in Observed :
        (/\ IsPressOf(p, k) /\ IsPressOf(q, k)
         /\ p.idx < q.idx
         /\ q.at - p.at <= WindowOf(k))
        => ~IsEmitted(q.idx)

(* C4, amended: when the press at t0 was forwarded and t1 - t0 is no more  *)
(* than the window, the press at t1 is suppressed and leaves is_pressed as *)
(* it found it: true, as the first press set it, unless a release of the   *)
(* button was forwarded in between.                                        *)
C4_PressWithinWindow ==
    \A k \in debounced_buttons : \A p \in Observed : \A q \in Observed :
        (/\ IsPressOf(p, k) /\ IsPressOf(q, k)
         /\ IsEmitted(p.idx)
         /\ p.idx < q.idx
         /\ q.at - p.at <= WindowOf(k))
        => /\ ~IsEmitted(q.idx)
           /\ p.pressed
           /\ q.pressed = ~(\E e \in Emitted :
                               /\ e.event = KeyEvent(k, 0)
                               /\ p.idx < e.idx /\ e.idx < q.idx)

\* a forwarded press, its forwarded release, and a press within the window
\* of the first, suppressed with is_pressed left false
C4_Witness ==
    \E k \in debounced_buttons : \E p \in Observed : \E q \in Observed :
        /\ IsPressOf(p, k) /\ IsPressOf(q, k)
        /\ IsEmitted(p.idx)
        /\ p.idx < q.idx
        /\ q.at - p.at <= WindowOf(k)
        /\ ~IsEmitted(q.idx)
        /\ ~q.pressed
        /\ \E e \in Emitted : e.event = KeyEvent(k, 0) /\ p.idx < e.idx
                              /\ e.idx < q.idx

----------------------------------------------------------------------------
(* C5: last_press_time of a button is the time of its last forwarded press *)
(* (the initial value before the first): suppressed presses, releases and  *)
(* repeats never move it.  So after a press forwarded at t0 and any such   *)
(* events, the next press read at t is forwarded if and only if            *)
(* t - t0 exceeds the window.                                              *)

ForwardedPresses(k) == { e \in Emitted : e.event = KeyEvent(k, 1) }

C5_WindowFromLastAcceptedPress ==
    \A k \in DOMAIN button_states :
        /\ \A e \in ForwardedPresses(k) :
              (\A f \in ForwardedPresses(k) : f.idx <= e.idx)
                  => button_states[k].last_press_time = e.at
        /\ \A e \in ForwardedPresses(k) : \A o \in Observed :
              (/\ IsPressOf(o, k)
               /\ o.idx > e.idx
               /\ ~\E f \in ForwardedPresses(k) : e.idx < f.idx /\ f.idx < o.idx)
              => (IsEmitted(o.idx) <=> o.at - e.at > WindowOf(k))

\* a press forwarded at t0, a press suppressed inside the window, then a
\* press forwarded although it came within a window of the suppressed one
C5_Witness ==
    \E k \in debounced_buttons :
    \E e \in ForwardedPresses(k) : \E s \in Observed : \E f \in ForwardedPresses(k) :
        /\ IsPressOf(s, k) /\ ~IsEmitted(s.idx)
        /\ e.idx < s.idx /\ s.idx < f.idx
        /\ f.at - e.at > WindowOf(k)
        /\ f.at - s.at <= WindowOf(k)
        /\ button_states[k].last_press_time = f.at

----------------------------------------------------------------------------
(* C6: every event that is not a press or a release of a tracked button    *)
(* (other event types, untracked key codes, repeats of tracked buttons) is *)
(* handed to the virtual device as it is, whatever the table holds, and    *)
(* the table is left unchanged.                                            *)

PressesAndReleases ==
    { KeyEvent(k, v) : k \in {"BTN_LEFT", "BTN_RIGHT", "BTN_MIDDLE",
                              "BTN_SIDE", "BTN_EXTRA"}, v \in {0, 1} }

C6_PassThrough ==
    [][\A event \in InputEvents \ PressesAndReleases :
          Handles(event) =>
              \/ Emits(event) /\ button_states' = button_states
              \/ EmitFails]_vars

\* a repeat of a button forwarded right after a suppressed press of it
C6_Witness ==
    \E k \in debounced_buttons : \E o \in Observed : \E e \in Emitted :
        /\ IsPressOf(o, k) /\ ~IsEmitted(o.idx)
        /\ e.idx = o.idx + 1
        /\ e.event = KeyEvent(k, 2)
        /\ received[e.idx] = e.event

----------------------------------------------------------------------------
(* C7: within a session any two presses of one button that were emitted    *)
(* were read more than the button's window apart.                          *)
C7_ForwardedPressesApart ==
    \A k \in debounced_buttons :
    \A e \in ForwardedPresses(k) : \A f \in ForwardedPresses(k) :
        e.idx < f.idx => f.at - e.at > WindowOf(k)

\* two forwarded presses of a button, the second just past the window, with
\* a forwarded release of the button between them
C7_Witness ==
    \E k \in debounced_buttons :
    \E e \in ForwardedPresses(k) : \E f \in ForwardedPresses(k) :
        /\ e.idx < f.idx
        /\ f.at - e.at = WindowOf(k) + 1
        /\ \E r \in Emitted : r.event = KeyEvent(k, 0) /\ e.idx < r.idx
                              /\ r.idx < f.idx

----------------------------------------------------------------------------
(* C8: each session builds the table anew: exactly the five buttons, each  *)
(* with is_pressed false, its documented window and a last_press_time more *)
(* than a window in the past; between sessions there is no table, and the  *)
(* first press of each button in a session is forwarded.                   *)
C8_Rebuilt ==
    (pc = "init" /\ pc' = "active") =>
        /\ DOMAIN button_states' = {"BTN_LEFT", "BTN_RIGHT", "BTN_MIDDLE",
                                    "BTN_SIDE", "BTN_EXTRA"}
        /\ \A k \in DOMAIN button_states' :
              /\ button_states'[k].is_pressed = FALSE
              /\ button_states'[k].debounce_duration = WindowOf(k)
              /\ now' - button_states'[k].last_press_time > WindowOf(k)

C8_NoTableBetweenSessions ==
    (pc \notin {"active", "fetch", "handle"}) => button_states = NoStates

C8_FirstPressForwarded ==
    \A k \in debounced_buttons : \A o \in Observed :
        (IsPressOf(o, k) /\ \A q \in Observed : IsPressOf(q, k) => q.idx >= o.idx)
            => IsEmitted(o.idx)

\* C8: the table is rebuilt at every session start, does not outlive the
\* session, and lets the first press of each button through
C8_FreshTable ==
    /\ [][C8_Rebuilt]_vars
    /\ [](C8_NoTableBetweenSessions /\ C8_FirstPressForwarded)

\* a second session forwards the first press of a button that was still
\* pressed when the session before ended
C8_Witness ==
    /\ session = 2
    /\ \E k \in held : \E e \in ForwardedPresses(k) :
          \A o \in Observed : IsPressOf(o, k) => o.idx >= e.idx

----------------------------------------------------------------------------
(* C9: a failed open, and a read error of kind NotFound or BrokenPipe,     *)
(* make the session return Ok; main then sleeps 3 s if `running` is true   *)
(* at its check and starts a new session if it is still true at the loop   *)
(* head; the process exits only on the root check, on `running` being      *)
(* false at the loop head, or on an Err result.                            *)
Transient == {"open_failed", "NotFound", "BrokenPipe"}

C9_Step ==
    /\ (pc \in {"open", "fetch"} /\ pc' = "returned" /\ ended_by' \in Transient)
          => result' = "Ok"
    /\ (pc = "open" /\ pc' = "returned") => ended_by' = "open_failed"
    /\ (pc = "returned" /\ pc' # pc /\ ended_by \in Transient)
          => /\ pc' = IF running THEN "sleep" ELSE "loop"
             /\ exit_code' = exit_code
    /\ (pc = "sleep" /\ pc' # pc) => (pc' = "loop" /\ now' = now + 3000)
    /\ (pc = "loop" /\ pc' # pc /\ running)
          => (pc' = "open" /\ session' = session + 1)
    /\ (pc' = "exited" /\ pc # "exited")
          => \/ pc = "privilege"
             \/ pc = "loop" /\ ~running
             \/ pc = "returned" /\ result = "Err" /\ ended_by \notin Transient

\* C9: a transient failure returns Ok and leads to the 3 s sleep and a new
\* session while `running` is true, never to the exit
C9_TransientFailure == [][C9_Step]_vars

\* a new open attempt, 3 s or more after a session was ended by device loss
C9_Witness ==
    /\ pc = "open"
    /\ session = 2
    /\ ended_by \in {"NotFound", "BrokenPipe"}
    /\ result = "Ok"
    /\ now >= 3000

----------------------------------------------------------------------------
C10_Step ==
    /\ (pc = "fetch" /\ pc' = "returned" /\ ended_by' = "Other")
          => (result' = "Ok" /\ ungrabbed')
    /\ (pc = "returned" /\ pc' # pc /\ ended_by = "Other")
          => /\ pc' = IF running THEN "sleep" ELSE "loop"
             /\ exit_code' = exit_code
    /\ (pc = "sleep" /\ pc' # pc /\ ended_by = "Other")
          => (pc' = "loop" /\ now' = now + 3000)
    /\ (pc = "loop" /\ pc' # pc /\ running /\ ended_by = "Other")
          => (pc' = "open" /\ session' = session + 1)

----------------------------------------------------------------------------
(* C11: when grab() fails, or the build of the virtual device fails, the   *)
(* session returns an error and main does not retry: from then on no open  *)
(* is attempted, no reconnect delay is slept, nothing is read and nothing  *)
(* is emitted.                                                             *)
SetupFailures == {"grab_failed", "build_failed"}

C11_Step ==
    /\ (pc = "grab" /\ pc' # pc /\ ~grabbed')
          => (pc' = "returned" /\ result' = "Err" /\ ended_by' = "grab_failed")
    /\ (pc = "build" /\ pc' # pc /\ ~virtual')
          => (pc' = "returned" /\ result' = "Err" /\ ended_by' = "build_failed")
    /\ (ended_by \in SetupFailures)
          => /\ pc \in {"returned", "exited"}
             /\ pc' \in {"returned", "exited"}
             /\ ended_by' = ended_by /\ result' = "Err"
             /\ session' = session /\ now' = now /\ fetched' = fetched
             /\ ~opened' /\ emitted = << >> /\ emitted' = << >>

\* C11: a failed grab or build is returned as an error, after which main
\* only leaves its loop
C11_SetupFailureNotRetried == [][C11_Step]_vars

\* the process has ended on a failed grab or build in its first session,
\* with `running` still true
C11_Witness ==
    /\ pc = "exited"
    /\ ended_by \in SetupFailures
    /\ result = "Err"
    /\ running
    /\ session = 1

----------------------------------------------------------------------------
(* C12 as stated: the exit code is 0 exactly when the process ends on the  *)
(* cancellation flag with no session having returned an error, and is not  *)
(* 0 when the root check fails or when a session returned an error.        *)
C12_ExitCodes ==
    [][(pc # "exited" /\ pc' = "exited") =>
          /\ (exit_code' = 0) <=> (pc = "loop" /\ ~running /\ result # "Err")
          /\ (pc = "privilege" \/ result = "Err") => exit_code' # 0]_vars

----------------------------------------------------------------------------
(* C13 as stated: a session that holds the grab reaches the cleanup step   *)
(* (the explicit ungrab) before it returns to main, on every path.         *)
C13_CleanupOnEveryPath ==
    [][(grabbed /\ pc' = "returned") => ungrabbed']_vars

(* C13, amended: a session that holds the grab no longer holds it, nor any *)
(* device, when it returns to main.  It runs the cleanup step when it      *)
(* leaves the read loop, on cancellation or on a read error, and then      *)
(* returns Ok; when the build of the virtual device or an emit fails, the  *)
(* error is returned at once, without the cleanup step, and the grab goes  *)
(* with the dropped handle.                                                *)
C13_Step ==
    (grabbed /\ pc' = "returned") =>
        /\ ~grabbed' /\ ~opened' /\ ~virtual'
        /\ ungrabbed' <=> (pc \in {"active", "fetch"})
        /\ (result' = "Ok") <=> (pc \in {"active", "fetch"})
        /\ ended_by' \in CASE pc = "active" -> {"stopped"}
                           [] pc = "fetch" -> {"NotFound", "BrokenPipe", "Other"}
                           [] pc = "build" -> {"build_failed"}
                           [] pc = "handle" -> {"emit_failed"}
                           [] OTHER -> {}

C13_GrabReleasedOnReturn == [][C13_Step]_vars

\* a session has returned the error of a failed emit: the grab is gone
\* though the cleanup step did not run
C13_Witness ==
    /\ pc = "returned"
    /\ ended_by = "emit_failed"
    /\ result = "Err"
    /\ ~ungrabbed
    /\ ~grabbed /\ ~opened

----------------------------------------------------------------------------
(* C14: `running` starts true (the cancellation flag unset); only the      *)
(* Ctrl-C handler writes it, and writes false; no step of main or of a     *)
(* session writes it, so once false it stays false; a request that finds   *)
(* it false changes nothing.                                               *)
C14_Step ==
    /\ ~running => ~running'
    /\ (running' # running) => UNCHANGED << pc, session, result, exit_code,
                                            devices, ungrabbed, ended_by, held,
                                            button_states, now, batch, fetched,
                                            histories >>
    /\ (CtrlC /\ ~running) => UNCHANGED vars

C14_FlagMonotonic == (running = TRUE) /\ [][C14_Step]_vars

\* the flag was cleared while a session is handling a batch, and the
\* session goes on (a second request can still arrive)
C14_Witness ==
    /\ ~running
    /\ pc = "handle"
    /\ observed # << >>
    /\ ENABLED CtrlC

----------------------------------------------------------------------------
(* C15: when a session has returned Ok and `running` is false at main's    *)
(* check (line 69), main does not sleep: it goes to the loop head, which   *)
(* ends the process with exit code 0 without another session.  When        *)
(* `running` becomes false during the sleep, the loop head after the sleep *)
(* ends the process the same way, without another open.                    *)
C15_Step ==
    /\ (pc = "returned" /\ result = "Ok" /\ ~running /\ pc' # pc)
          => (pc' = "loop" /\ now' = now /\ session' = session)
    /\ (pc = "sleep" /\ pc' # pc) => (pc' = "loop" /\ session' = session)
    /\ (pc = "loop" /\ ~running /\ pc' # pc)
          => /\ pc' = "exited"
             /\ exit_code' = 0
             /\ session' = session
             /\ ~opened'
    /\ ~running => ~running'

C15_CancelledAfterSession == [][C15_Step]_vars

\* the process has ended with exit code 0 after the 3 s sleep that followed
\* a lost device, without a second session
C15_Witness ==
    /\ pc = "exited"
    /\ exit_code = 0
    /\ ~running
    /\ session = 1
    /\ ended_by \in {"NotFound", "BrokenPipe"}
    /\ now >= SETTLE_DELAY + RECONNECT_DELAY

----------------------------------------------------------------------------
(* C16: the flag is looked at only between reads.  When every blocking     *)
(* read returns, with a batch or with an error, a process whose flag is    *)
(* cleared ends.  A session blocked in a read leaves it only when the read *)
(* returns: a cleared flag alone moves nothing, and while the device       *)
(* delivers neither events nor an error the session stays in its read,     *)
(* the process not ended.                                                  *)
C16_BlockedStep ==
    (pc = "fetch") =>
        \/ pc' = "fetch" /\ exit_code' = NoExit /\ grabbed'
        \/ pc' = "handle" /\ batch' # << >> /\ fetched' > fetched
        \/ pc' = "returned" /\ ended_by' \in ReadErrorKinds

C16_Terminates == ~running ~> (pc = "exited")

C16_CancelBetweenReads == C16_Terminates /\ [][C16_BlockedStep]_vars

\* a session is blocked in a read with the flag already cleared
C16_Witness ==
    /\ pc = "fetch"
    /\ ~running
    /\ grabbed /\ virtual
    /\ exit_code = NoExit

----------------------------------------------------------------------------
(* C17: once `running` is false, a session reads no batch but the one its  *)
(* pending fetch_events returns; every event of a batch is still passed    *)
(* through handle_event, one after the other, and the loop test that       *)
(* follows the batch takes the session to its cleanup without another      *)
(* read.                                                                   *)
C17_Step ==
    /\ ~running => ~running'
    /\ (~running /\ fetched' # fetched) => pc = "fetch"
    /\ (~running /\ pc' = "fetch") => pc = "fetch"
    /\ (~running /\ pc = "handle" /\ pc' # "returned" /\ batch' # batch)
          => /\ batch' = Tail(batch)
             /\ Len(observed') = Len(observed) + 1
             /\ observed'[Len(observed')].idx = HeadIndex
             /\ IF CallsEmit(Head(batch), now', button_states)
                THEN Emits(Head(batch)) ELSE emitted' = emitted
             /\ pc' = IF Tail(batch) = << >> THEN "active" ELSE "handle"
             /\ fetched' = fetched
    /\ (~running /\ pc = "handle" /\ pc' = "returned") => EmitFails
    /\ (~running /\ pc = "active" /\ pc' # pc)
          => /\ pc' = "returned"
             /\ ended_by' = "stopped"
             /\ result' = "Ok"
             /\ ungrabbed'
             /\ fetched' = fetched

C17_OneMoreBatch == [][C17_Step]_vars

\* with the flag cleared, a batch of two events has been handled to its end
\* and its last event emitted; the session is at its loop test
C17_Witness ==
    /\ ~running
    /\ pc = "active"
    /\ Len(received) >= 2
    /\ Len(observed) = Len(received)
    /\ emitted # << >>
    /\ emitted[Len(emitted)].idx = Len(received)

----------------------------------------------------------------------------
(* C18: within a session the events the virtual device accepted are a      *)
(* subsequence of the events read: each is one of the events handled so    *)
(* far, unchanged, none is emitted twice and they are in the order read.   *)
RECURSIVE IsSubsequence(_, _)
IsSubsequence(a, b) ==
    IF a = << >> THEN TRUE
    ELSE IF b = << >> THEN FALSE
    ELSE IF Head(a) = Head(b) THEN IsSubsequence(Tail(a), Tail(b))
    ELSE IsSubsequence(a, Tail(b))

EmittedEvents == [j \in 1..Len(emitted) |-> emitted[j].event]

C18_EmittedIsSubsequence ==
    /\ Len(observed) <= Len(received)
    /\ IsSubsequence(EmittedEvents, SubSeq(received, 1, Len(observed)))
    /\ \A j \in 1..Len(emitted) :
          /\ emitted[j].idx \in 1..Len(observed)
          /\ emitted[j].event = received[emitted[j].idx]
    /\ \A i \in 1..Len(emitted) : \A j \in 1..Len(emitted) :
          i < j => emitted[i].idx < emitted[j].idx

\* three events read in more than one batch; the first and the third were
\* emitted, the second, different from both, was not
C18_Witness ==
    /\ Len(received) = 3
    /\ Len(observed) = 3
    /\ Len(emitted) = 2
    /\ emitted[1].idx = 1 /\ emitted[2].idx = 3
    /\ received[2] # received[1] /\ received[2] # received[3]

----------------------------------------------------------------------------
(* C19: the device handles belong to the one running session: none is      *)
(* alive while main is outside connect_and_run_loop or about to open; the  *)
(* virtual device exists only under the grab, the grab only on an open     *)
(* handle; and events are read, handled and emitted only by a session      *)
(* that holds the grab and the virtual device.                             *)
C19_OneSession ==
    /\ virtual => grabbed
    /\ grabbed => opened
    /\ (pc \in {"privilege", "loop", "open", "returned", "sleep", "exited"})
          => (~opened /\ ~grabbed /\ ~virtual)
    /\ (pc \in {"init", "active", "fetch", "handle"})
          => (opened /\ grabbed /\ virtual)
    /\ (received # << >> \/ batch # << >> \/ observed # << >>
            \/ emitted # << >> \/ button_states # NoStates)
          => (grabbed /\ virtual /\ pc \in {"active", "fetch", "handle"})

\* a second session, the grab and the virtual device in hand, has emitted
\* an event and is handling the rest of a batch
C19_Witness ==
    /\ session = 2
    /\ pc = "handle"
    /\ opened /\ grabbed /\ virtual
    /\ emitted # << >>

----------------------------------------------------------------------------
(* C20: a button whose is_pressed was true when a session ended starts the *)
(* next session with is_pressed false: a release of it that is read before *)
(* any press of it was forwarded in that session is not emitted.           *)
C20_StaleReleaseSuppressed ==
    \A k \in held : \A o \in Observed :
        (/\ IsReleaseOf(o, k)
         /\ ~\E e \in ForwardedPresses(k) : e.idx < o.idx)
        => ~IsEmitted(o.idx)

\* the session after one that ended with a button pressed has read the
\* release of that button first, and dropped it
C20_Witness ==
    /\ session = 2
    /\ \E k \in held : \E o \in Observed :
          /\ IsReleaseOf(o, k)
          /\ o.idx = 1
          /\ ~IsEmitted(o.idx)
          /\ ~button_states[k].is_pressed

=============================================================================
